---------------------------- MODULE Spec2Model ----------------------------
(***************************************************************************)
(* Model of the Nutrient Document Engine MCP server                        *)
(* (src/nutrient-document-engine/index.ts).                                *)
(*                                                                         *)
(* The server registers four request handlers (resources/list,             *)
(* resources/read, tools/list, tools/call).  Each handler is an async      *)
(* function: it runs to its next `await api.get/post(...)`, is suspended   *)
(* until the backend answers, and resumes.  The model has one action per   *)
(* handler segment between two awaits; several requests may be in flight   *)
(* and their segments interleave.                                          *)
(*                                                                         *)
(* JavaScript values are tagged records (field t), so that the property    *)
(* accesses, truthiness tests, template strings and JSON.stringify of the  *)
(* source can be computed as JavaScript computes them.                     *)
(***************************************************************************)
EXTENDS Integers, Sequences, FiniteSets, TLC

(***************************************************************************)
(* JavaScript values.                                                      *)
(***************************************************************************)
Undefined == [t |-> "undefined"]
Null == [t |-> "null"]
Str(s) == [t |-> "string", s |-> s]
Num(n) == [t |-> "number", n |-> n]
Bool(b) == [t |-> "boolean", b |-> b]
\* An array holds its elements in order.
Arr(items) == [t |-> "array", items |-> items]
\* An object holds its properties in insertion order, as <<key, value>> pairs.
Obj(fields) == [t |-> "object", fields |-> fields]

IsNullish(v) == v.t \in {"undefined", "null"}
IsArray(v) == v.t = "array"

\* v.k for a value v that is not null or undefined (those throw a TypeError,
\* which the callers test with IsNullish before they use Prop).
Prop(v, k) ==
    IF v.t = "object" /\ \E i \in 1..Len(v.fields) : v.fields[i][1] = k
    THEN LET i == CHOOSE j \in 1..Len(v.fields) :
                     /\ v.fields[j][1] = k
                     /\ \A h \in 1..(j - 1) : v.fields[h][1] # k
         IN v.fields[i][2]
    ELSE Undefined

\* `o.k = v` on an object o: the property is overwritten, or added last.
SetProp(o, k, v) ==
    IF \E i \in 1..Len(o.fields) : o.fields[i][1] = k
    THEN Obj([i \in 1..Len(o.fields) |->
                IF o.fields[i][1] = k THEN <<k, v>> ELSE o.fields[i]])
    ELSE Obj(Append(o.fields, <<k, v>>))

\* ToBoolean(v), the test of `if (v)` and of `v || w`.
Truthy(v) ==
    CASE v.t \in {"undefined", "null"} -> FALSE
      [] v.t = "string" -> v.s # ""
      [] v.t = "number" -> v.n # 0
      [] v.t = "boolean" -> v.b
      [] OTHER -> TRUE

\* `v || w`
OrElse(v, w) == IF Truthy(v) THEN v ELSE w

\* ToString(v), the conversion of `${v}` inside a template literal.
ToStr(v) ==
    CASE v.t = "undefined" -> "undefined"
      [] v.t = "null" -> "null"
      [] v.t = "string" -> v.s
      [] v.t = "number" -> ToString(v.n)
      [] v.t = "boolean" -> (IF v.b THEN "true" ELSE "false")
      [] v.t = "array" -> "[array]"
      [] OTHER -> "[object Object]"

(***************************************************************************)
(* Strings.                                                                *)
(***************************************************************************)
\* The first position at which p occurs in s, 0 when it does not occur.
IndexOf(s, p) ==
    LET hits == {i \in 1..(Len(s) - Len(p) + 1) : SubSeq(s, i, i + Len(p) - 1) = p}
    IN IF hits = {} THEN 0 ELSE CHOOSE i \in hits : \A j \in hits : i <= j

\* String.prototype.replace(p, rep) with a string pattern: the first
\* occurrence of p, wherever it is, is replaced.
Replace(s, p, rep) ==
    LET i == IndexOf(s, p)
    IN IF i = 0 THEN s
       ELSE SubSeq(s, 1, i - 1) \o rep \o SubSeq(s, i + Len(p), Len(s))

\* Array.prototype.join(sep) of an array of strings.
RECURSIVE Join(_, _)
Join(strs, sep) ==
    IF Len(strs) = 0 THEN ""
    ELSE IF Len(strs) = 1 THEN strs[1]
    ELSE strs[1] \o sep \o Join(Tail(strs), sep)

RECURSIVE Spaces(_)
Spaces(n) == IF n = 0 THEN "" ELSE " " \o Spaces(n - 1)

\* The properties JSON.stringify writes: those whose value is not undefined.
RECURSIVE Defined(_)
Defined(fields) ==
    IF Len(fields) = 0 THEN <<>>
    ELSE IF Head(fields)[2].t = "undefined" THEN Defined(Tail(fields))
    ELSE <<Head(fields)>> \o Defined(Tail(fields))

\* JSON.stringify(v, null, 2) at nesting depth `ind` (in spaces).  The
\* strings of the model hold no character that JSON escapes.
RECURSIVE Stringify(_, _)
Stringify(v, ind) ==
    CASE v.t = "string" -> "\"" \o v.s \o "\""
      [] v.t = "number" -> ToString(v.n)
      [] v.t = "boolean" -> (IF v.b THEN "true" ELSE "false")
      [] v.t \in {"null", "undefined"} -> "null"
      [] v.t = "array" ->
            IF Len(v.items) = 0 THEN "[]"
            ELSE "[\n"
                 \o Join([i \in 1..Len(v.items) |->
                            Spaces(ind + 2) \o Stringify(v.items[i], ind + 2)], ",\n")
                 \o "\n" \o Spaces(ind) \o "]"
      [] OTHER ->
            LET fs == Defined(v.fields)
            IN IF Len(fs) = 0 THEN "{}"
               ELSE "{\n"
                    \o Join([i \in 1..Len(fs) |->
                               Spaces(ind + 2) \o "\"" \o fs[i][1] \o "\": "
                               \o Stringify(fs[i][2], ind + 2)], ",\n")
                    \o "\n" \o Spaces(ind) \o "}"

(***************************************************************************)
(* Configuration and the shared backend client (index.ts lines 20-40).     *)
(***************************************************************************)
BASE_URL == "https://engine.example"
API_SECRET == "s3cret"

\* The axios instance, created once; every handler calls through it.
api ==
    [baseURL |-> BASE_URL,
     headers |-> [Authorization |-> "Token token=\"" \o API_SECRET \o "\"",
                  ContentType |-> "application/json"]]

\* api.get(url, {params}) and api.get(url): the request axios sends.
ApiGet(url, params) ==
    [method |-> "GET", baseURL |-> api.baseURL, headers |-> api.headers,
     url |-> url, params |-> params, data |-> Undefined]

\* api.post(url, data)
ApiPost(url, data) ==
    [method |-> "POST", baseURL |-> api.baseURL, headers |-> api.headers,
     url |-> url, params |-> Undefined, data |-> data]

\* What an awaited backend call yields: the promise rejects with an error
\* (no connection, or a status outside 2xx), or resolves to a response whose
\* .data is the parsed body.
Rejected(cause) == [status |-> "rejected", cause |-> cause]
Resolved(body) == [status |-> "resolved", data |-> body]

\* How a handler ends.
Pending == [kind |-> "pending"]
Returned(v) == [kind |-> "result", value |-> v]
Thrown(msg) == [kind |-> "error", message |-> msg]

URI_PREFIX == "nutrient-document-engine:///"

(***************************************************************************)
(* Bounds and the inputs drawn within them.                                *)
(***************************************************************************)
\* Request slots (requests that may be in flight together).
NumRequests == 2
\* Longest document list a backend response carries.
MaxDocs == 2
\* Longest layer list and longest annotation list a backend response carries.
MaxItems == 1

Requests == 1..NumRequests

\* All sequences over S of length at most n.
RECURSIVE SeqsUpTo(_, _)
SeqsUpTo(S, n) ==
    IF n = 0 THEN {<<>>}
    ELSE LET shorter == SeqsUpTo(S, n - 1)
         IN shorter \cup {Append(s, e) : s \in {q \in shorter : Len(q) = n - 1}, e \in S}

\* An object literal of the backend: the properties that are present.
Json(fields) == Obj(Defined(fields))

\* Requests the server can receive.
ListRequests ==
    {[method |-> "resources/list", params |-> p] :
        p \in {Undefined, Obj(<<>>),
               Obj(<< <<"cursor", Str("")>> >>), Obj(<< <<"cursor", Str("2")>> >>)}}

Uris ==
    {URI_PREFIX \o "abc123", URI_PREFIX, "abc123", "file:///abc123",
     "x" \o URI_PREFIX \o "abc123"}

ReadRequests ==
    {[method |-> "resources/read", params |-> Obj(<< <<"uri", Str(u)>> >>)] : u \in Uris}

ToolsListRequests == {[method |-> "tools/list", params |-> Undefined]}

CreateArguments ==
    {Undefined,
     Obj(<< <<"documentId", Str("abc123")>>, <<"type", Str("note")>>,
            <<"page", Num(1)>>, <<"content", Obj(<< <<"text", Str("hi")>> >>)>> >>),
     Obj(<< <<"documentId", Str("d2")>>, <<"type", Str("highlight")>>,
            <<"page", Num(2)>>, <<"content", Obj(<<>>)>> >>)}

CallRequest(name, arguments) ==
    [method |-> "tools/call",
     params |-> Json(<< <<"name", Str(name)>>, <<"arguments", arguments>> >>)]

CallRequests ==
    {CallRequest("search", a) : a \in {Undefined, Obj(<< <<"query", Str("invoice")>> >>)}}
    \cup {CallRequest("create_annotation", a) : a \in CreateArguments}
    \cup {CallRequest(n, Obj(<<>>)) : n \in {"unknown_tool", "Search", ""}}

AllRequests == ListRequests \cup ReadRequests \cup ToolsListRequests \cup CallRequests

\* Bodies the backend can answer with.  A body may be well formed or not:
\* null, without its data, with elements that lack id or attributes.
DocumentValues ==
    {Json(<< <<"id", id>>, <<"attributes", a>> >>) :
        id \in {Str("abc123"), Num(7)},
        a \in {Undefined, Obj(<<>>), Obj(<< <<"title", Null>> >>),
               Obj(<< <<"title", Str("")>> >>),
               Obj(<< <<"title", Str("Invoice")>>, <<"page_count", Num(3)>> >>)}}
    \cup {Obj(<< <<"attributes", Obj(<< <<"title", Str("Memo")>> >>)>> >>), Null}

MetaValues ==
    {Undefined, Obj(<<>>), Obj(<< <<"pagination", Obj(<<>>)>> >>)}
    \cup {Obj(<< <<"pagination", Obj(<< <<"next_page", n>> >>)>> >>) :
            n \in {Null, Num(0), Num(2)}}

ListBodies ==
    {Null, Obj(<<>>)}
    \cup {Json(<< <<"data", Arr(ds)>>, <<"meta", m>> >>) :
            ds \in SeqsUpTo(DocumentValues, MaxDocs), m \in MetaValues}

DocumentBodies ==
    {Null, Obj(<<>>)}
    \cup {Obj(<< <<"data", d>> >>) :
            d \in {Obj(<< <<"id", Str("abc123")>>,
                          <<"attributes", Obj(<< <<"title", Str("Invoice")>>,
                                                 <<"page_count", Num(3)>> >>)>> >>),
                   Obj(<< <<"id", Num(7)>>, <<"attributes", Obj(<<>>)>> >>),
                   Obj(<< <<"id", Str("abc123")>> >>)}}

LayerValues ==
    {Obj(<< <<"id", Str("l1")>>,
            <<"attributes", Obj(<< <<"name", Str("Layer 1")>>,
                                   <<"visible", Bool(TRUE)>> >>)>> >>),
     Obj(<< <<"id", Str("l2")>> >>)}

LayersBodies ==
    {Null, Obj(<<>>)}
    \cup {Obj(<< <<"data", Arr(ls)>> >>) : ls \in SeqsUpTo(LayerValues, MaxItems)}

AnnotationValues ==
    {Obj(<< <<"id", Str("a1")>>,
            <<"attributes", Obj(<< <<"type", Str("note")>>, <<"page", Num(1)>>,
                                   <<"content", Obj(<< <<"text", Str("hi")>> >>)>> >>)>> >>),
     Obj(<< <<"id", Str("a2")>> >>)}

AnnotationsBodies ==
    {Null, Obj(<<>>)}
    \cup {Obj(<< <<"data", Arr(as)>> >>) : as \in SeqsUpTo(AnnotationValues, MaxItems)}

CreateBodies ==
    {Null, Obj(<<>>), Obj(<< <<"data", Obj(<<>>)>> >>),
     Obj(<< <<"data", Obj(<< <<"id", Str("ann-1")>>, <<"type", Str("annotations")>> >>)>> >>),
     Obj(<< <<"data", Obj(<< <<"id", Num(42)>> >>)>> >>)}

Causes == {"ECONNREFUSED", "status 401", "status 500"}

Responses(bodies) == {Rejected(c) : c \in Causes} \cup {Resolved(b) : b \in bodies}

(***************************************************************************)
(* State.                                                                  *)
(***************************************************************************)
VARIABLES
    req,        \* req[r]: the request slot r is handling (Undefined before it arrives)
    pc,         \* pc[r]: "idle", the await the handler is suspended at, or "done"
    sent,       \* sent[r]: the backend calls the handler has issued, in order
    recv,       \* recv[r]: what those calls yielded, in order
    locals,     \* locals[r]: the handler's local variables that live across an await
    outcome,    \* outcome[r]: how the handler ended
    stderr      \* stderr[r]: the console.error lines the handler wrote

vars == <<req, pc, sent, recv, locals, outcome, stderr>>

Init ==
    /\ req = [r \in Requests |-> Undefined]
    /\ pc = [r \in Requests |-> "idle"]
    /\ sent = [r \in Requests |-> <<>>]
    /\ recv = [r \in Requests |-> <<>>]
    /\ locals = [r \in Requests |-> <<>>]
    /\ outcome = [r \in Requests |-> Pending]
    /\ stderr = [r \in Requests |-> <<>>]

\* The handler of slot r issues a backend call and is suspended at `at`.
Await(r, call, at) ==
    /\ sent' = [sent EXCEPT ![r] = Append(@, call)]
    /\ pc' = [pc EXCEPT ![r] = at]

\* The error a catch block receives: the rejection of the awaited call, or
\* the TypeError of a property read from null or undefined.
CaughtError(response) ==
    IF response.status = "rejected" THEN response.cause ELSE "TypeError"

\* console.error(message, error)
ErrorLog(message, error) == <<[message |-> message, error |-> error]>>

\* The handler of slot r ends with `out`; `log` is what it wrote to stderr.
Finish(r, out, log) ==
    /\ outcome' = [outcome EXCEPT ![r] = out]
    /\ stderr' = [stderr EXCEPT ![r] = @ \o log]
    /\ pc' = [pc EXCEPT ![r] = "done"]

(***************************************************************************)
(* resources/list (index.ts lines 57-80).                                  *)
(***************************************************************************)
\* request.params?.cursor
Cursor(request) ==
    IF IsNullish(request.params) THEN Undefined ELSE Prop(request.params, "cursor")

\* NewParams as a module-level object shared by all invocations: what an
\* earlier or concurrent listing left in it.
SharedParams(r) ==
    IF \E q \in Requests \ {r} :
          pc[q] # "idle" /\ req[q].method = "resources/list" /\ Len(sent[q]) > 0
    THEN sent[CHOOSE q \in Requests \ {r} :
                 pc[q] # "idle" /\ req[q].method = "resources/list" /\ Len(sent[q]) > 0][1].params
    ELSE Obj(<<>>)

\* `const params: any = {}`: an object of this invocation alone.
NewParams(r) == Obj(<<>>)

\* ListParams forwarding the cursor under its own name instead of `page`.
ListParamsCursorKey(r, request) ==
    IF Truthy(Cursor(request))
    THEN SetProp(NewParams(r), "cursor", Cursor(request))
    ELSE NewParams(r)

\* Lines 59-63: the query parameters of the listing call.
ListParams(r, request) ==
    IF Truthy(Cursor(request))
    THEN SetProp(NewParams(r), "page", Cursor(request))
    ELSE NewParams(r)

\* Reading doc.id and doc.attributes.title throws a TypeError when doc or
\* doc.attributes is null or undefined.
DocThrows(doc) == IsNullish(doc) \/ IsNullish(Prop(doc, "attributes"))

\* ResourceName with `??` in place of `||`: an empty title is kept.
ResourceNameNullish(doc) ==
    IF IsNullish(Prop(Prop(doc, "attributes"), "title"))
    THEN Str("Document " \o ToStr(Prop(doc, "id")))
    ELSE Prop(Prop(doc, "attributes"), "title")

\* doc.attributes.title || `Document ${doc.id}`  (line 72)
ResourceName(doc) ==
    OrElse(Prop(Prop(doc, "attributes"), "title"),
           Str("Document " \o ToStr(Prop(doc, "id"))))

\* Whether lines 65-75 throw: the awaited call rejects, or a property is
\* read from null or undefined, or documents.map is not a function.
ListResourcesThrows(response) ==
    \/ response.status = "rejected"
    \/ IsNullish(response.data)
    \/ ~IsArray(Prop(response.data, "data"))
    \/ \E i \in 1..Len(Prop(response.data, "data").items) :
          DocThrows(Prop(response.data, "data").items[i])
    \/ IsNullish(Prop(response.data, "meta"))
    \/ IsNullish(Prop(Prop(response.data, "meta"), "pagination"))

\* The object returned at lines 68-75.
ListResourcesResult(response) ==
    LET documents == Prop(response.data, "data").items
        pagination == Prop(Prop(response.data, "meta"), "pagination")
    IN [resources |->
            [i \in 1..Len(documents) |->
                [uri |-> URI_PREFIX \o ToStr(Prop(documents[i], "id")),
                 mimeType |-> "application/pdf",
                 name |-> ResourceName(documents[i])]],
        nextCursor |-> OrElse(Prop(pagination, "next_page"), Undefined)]

\* The handler up to its await at line 65.
ListResources(r, request) ==
    /\ pc[r] = "idle"
    /\ request.method = "resources/list"
    /\ req' = [req EXCEPT ![r] = request]
    /\ Await(r, ApiGet("/api/documents", ListParams(r, request)), "list:65")
    /\ UNCHANGED <<recv, locals, outcome, stderr>>

\* The handler from line 65 to its end.
ListResources_Resume(r, response) ==
    /\ pc[r] = "list:65"
    /\ recv' = [recv EXCEPT ![r] = Append(@, response)]
    /\ IF ListResourcesThrows(response)
       THEN Finish(r, Thrown("Failed to list documents"),
                   ErrorLog("Error listing documents:", CaughtError(response)))
       ELSE Finish(r, Returned(ListResourcesResult(response)), <<>>)
    /\ UNCHANGED <<req, sent, locals>>

(***************************************************************************)
(* resources/read (index.ts lines 83-130).                                 *)
(***************************************************************************)
\* DocumentId by position (uri.slice(prefix.length)) instead of replace.
DocumentIdSlice(request) ==
    SubSeq(Prop(request.params, "uri").s, Len(URI_PREFIX) + 1,
           Len(Prop(request.params, "uri").s))

\* request.params.uri.replace("nutrient-document-engine:///", "")  (line 85)
DocumentId(request) == Replace(Prop(request.params, "uri").s, URI_PREFIX, "")

\* `await api.get(...)` followed by `response.data.data` throws when the call
\* rejects or the body is null or undefined.
DataThrows(response) == response.status = "rejected" \/ IsNullish(response.data)

\* Reading item.id and item.attributes.<field> throws for these items.
ItemsThrow(list) ==
    \/ ~IsArray(list)
    \/ \E i \in 1..Len(list.items) :
          IsNullish(list.items[i]) \/ IsNullish(Prop(list.items[i], "attributes"))

\* Whether building documentInfo (lines 100-115) throws.
DocumentInfoThrows(document, layers, annotations) ==
    \/ DocThrows(document)
    \/ ItemsThrow(layers)
    \/ ItemsThrow(annotations)

\* documentInfo (lines 100-115)
DocumentInfo(document, layers, annotations) ==
    Obj(<< <<"id", Prop(document, "id")>>,
           <<"title", Prop(Prop(document, "attributes"), "title")>>,
           <<"pageCount", Prop(Prop(document, "attributes"), "page_count")>>,
           <<"layers",
             Arr([i \in 1..Len(layers.items) |->
                    LET layer == layers.items[i]
                    IN Obj(<< <<"id", Prop(layer, "id")>>,
                              <<"name", Prop(Prop(layer, "attributes"), "name")>>,
                              <<"visible", Prop(Prop(layer, "attributes"), "visible")>> >>)])>>,
           <<"annotations",
             Arr([i \in 1..Len(annotations.items) |->
                    LET annotation == annotations.items[i]
                    IN Obj(<< <<"id", Prop(annotation, "id")>>,
                              <<"type", Prop(Prop(annotation, "attributes"), "type")>>,
                              <<"page", Prop(Prop(annotation, "attributes"), "page")>>,
                              <<"content",
                                Prop(Prop(annotation, "attributes"), "content")>> >>)])>> >>)

\* The object returned at lines 117-125.
ReadResourceResult(request, documentInfo) ==
    [contents |-> <<[uri |-> Prop(request.params, "uri").s,
                     mimeType |-> "application/json",
                     text |-> Stringify(documentInfo, 0)]>>]

\* ReadFailed passing the cause on to the caller.
ReadFailedLeaky(r, error) ==
    Finish(r, Thrown("Failed to read document: " \o error),
           ErrorLog("Error reading document:", error))

\* The catch block of lines 126-129.
ReadFailed(r, error) ==
    Finish(r, Thrown("Failed to read document"), ErrorLog("Error reading document:", error))

\* The handler up to its await at line 88.
ReadResource(r, request) ==
    /\ pc[r] = "idle"
    /\ request.method = "resources/read"
    /\ req' = [req EXCEPT ![r] = request]
    /\ locals' = [locals EXCEPT ![r] = [documentId |-> DocumentId(request),
                                        document |-> Undefined,
                                        layers |-> Undefined]]
    /\ Await(r, ApiGet("/api/documents/" \o DocumentId(request), Undefined), "read:88")
    /\ UNCHANGED <<recv, outcome, stderr>>

\* ReadResource_Document issuing the layers and annotations calls together.
ReadResource_DocumentParallel(r, response) ==
    /\ pc[r] = "read:88"
    /\ recv' = [recv EXCEPT ![r] = Append(@, response)]
    /\ IF DataThrows(response)
       THEN ReadFailed(r, CaughtError(response)) /\ UNCHANGED <<sent, locals>>
       ELSE /\ locals' = [locals EXCEPT ![r].document = Prop(response.data, "data")]
            /\ sent' = [sent EXCEPT ![r] =
                          @ \o <<ApiGet("/api/documents/" \o locals[r].documentId
                                          \o "/layers", Undefined),
                                 ApiGet("/api/documents/" \o locals[r].documentId
                                          \o "/annotations", Undefined)>>]
            /\ pc' = [pc EXCEPT ![r] = "read:96"]
            /\ UNCHANGED <<outcome, stderr>>
    /\ UNCHANGED req

\* From line 88 to the await at line 92.
ReadResource_Document(r, response) ==
    /\ pc[r] = "read:88"
    /\ recv' = [recv EXCEPT ![r] = Append(@, response)]
    /\ IF DataThrows(response)
       THEN ReadFailed(r, CaughtError(response)) /\ UNCHANGED <<sent, locals>>
       ELSE /\ locals' = [locals EXCEPT ![r].document = Prop(response.data, "data")]
            /\ Await(r, ApiGet("/api/documents/" \o locals[r].documentId \o "/layers",
                               Undefined), "read:92")
            /\ UNCHANGED <<outcome, stderr>>
    /\ UNCHANGED req

\* From line 92 to the await at line 96.
ReadResource_Layers(r, response) ==
    /\ pc[r] = "read:92"
    /\ recv' = [recv EXCEPT ![r] = Append(@, response)]
    /\ IF DataThrows(response)
       THEN ReadFailed(r, CaughtError(response)) /\ UNCHANGED <<sent, locals>>
       ELSE /\ locals' = [locals EXCEPT ![r].layers = Prop(response.data, "data")]
            /\ Await(r, ApiGet("/api/documents/" \o locals[r].documentId \o "/annotations",
                               Undefined), "read:96")
            /\ UNCHANGED <<outcome, stderr>>
    /\ UNCHANGED req

\* From line 96 to the handler's end.
ReadResource_Annotations(r, response) ==
    /\ pc[r] = "read:96"
    /\ recv' = [recv EXCEPT ![r] = Append(@, response)]
    /\ IF \/ DataThrows(response)
          \/ DocumentInfoThrows(locals[r].document, locals[r].layers,
                                Prop(response.data, "data"))
       THEN ReadFailed(r, CaughtError(response))
       ELSE Finish(r, Returned(ReadResourceResult(req[r],
                        DocumentInfo(locals[r].document, locals[r].layers,
                                     Prop(response.data, "data")))), <<>>)
    /\ UNCHANGED <<req, sent, locals>>

(***************************************************************************)
(* tools/list (index.ts lines 133-179).                                    *)
(***************************************************************************)
AnnotationTypes == <<"note", "highlight", "ink", "text", "stamp", "image", "link">>

ToolCatalog ==
    [tools |->
        <<[name |-> "search",
           properties |-> <<[name |-> "query", type |-> "string"]>>,
           required |-> <<"query">>],
          [name |-> "create_annotation",
           properties |-> <<[name |-> "documentId", type |-> "string"],
                            [name |-> "type", type |-> "string", enum |-> AnnotationTypes],
                            [name |-> "page", type |-> "number"],
                            [name |-> "content", type |-> "object"]>>,
           required |-> <<"documentId", "type", "page", "content">>]>>]

ListTools(r, request) ==
    /\ pc[r] = "idle"
    /\ request.method = "tools/list"
    /\ req' = [req EXCEPT ![r] = request]
    /\ Finish(r, Returned(ToolCatalog), <<>>)
    /\ UNCHANGED <<sent, recv, locals>>

(***************************************************************************)
(* tools/call (index.ts lines 182-261).                                    *)
(***************************************************************************)
ToolName(request) == Prop(request.params, "name")
Arguments(request) == Prop(request.params, "arguments")

\* The tool result objects of lines 199-207, 210-218, 237-245 and 248-256.
ToolResult(text, isError) ==
    [content |-> <<[type |-> "text", text |-> text]>>, isError |-> isError]

\* The fixed texts of the two catch blocks (lines 214 and 252).
SearchFailureText == "Failed to search documents. Please try again."
CreateFailureText == "Failed to create annotation. Please check your inputs and try again."

\* request.params.arguments?.query  (line 185)
Query(request) ==
    IF IsNullish(Arguments(request)) THEN Undefined
    ELSE Prop(Arguments(request), "query")

\* `${doc.attributes.title || `Document ${doc.id}`} (ID: ${doc.id})`  (line 196)
SearchLine(doc) ==
    ToStr(OrElse(Prop(Prop(doc, "attributes"), "title"),
                 Str("Document " \o ToStr(Prop(doc, "id")))))
    \o " (ID: " \o ToStr(Prop(doc, "id")) \o ")"

\* Whether lines 187-197 throw.
SearchThrows(response) ==
    \/ DataThrows(response)
    \/ ~IsArray(Prop(response.data, "data"))
    \/ \E i \in 1..Len(Prop(response.data, "data").items) :
          DocThrows(Prop(response.data, "data").items[i])

\* SearchText listing the documents last to first.
SearchTextReversed(response) ==
    LET documents == Prop(response.data, "data").items
        n == Len(documents)
    IN "Found " \o ToString(n) \o " documents:\n"
       \o Join([i \in 1..n |-> SearchLine(documents[n + 1 - i])], "\n")

\* The text of line 203.
SearchText(response) ==
    LET documents == Prop(response.data, "data").items
    IN "Found " \o ToString(Len(documents)) \o " documents:\n"
       \o Join([i \in 1..Len(documents) |-> SearchLine(documents[i])], "\n")

\* The search branch up to its await at line 187.
CallTool_Search(r, request) ==
    /\ pc[r] = "idle"
    /\ request.method = "tools/call"
    /\ ToolName(request) = Str("search")
    /\ req' = [req EXCEPT ![r] = request]
    /\ Await(r, ApiGet("/api/documents",
                       Obj(<< <<"filter", Obj(<< <<"query", Query(request)>> >>)>> >>)),
             "search:187")
    /\ UNCHANGED <<recv, locals, outcome, stderr>>

\* The search branch from line 187 to its end.
CallTool_Search_Resume(r, response) ==
    /\ pc[r] = "search:187"
    /\ recv' = [recv EXCEPT ![r] = Append(@, response)]
    /\ IF SearchThrows(response)
       THEN Finish(r, Returned(ToolResult(SearchFailureText, TRUE)),
                   ErrorLog("Error searching documents:", CaughtError(response)))
       ELSE Finish(r, Returned(ToolResult(SearchText(response), FALSE)), <<>>)
    /\ UNCHANGED <<req, sent, locals>>

\* AnnotationEnvelope without the JSON-API wrapper.
AnnotationEnvelopeFlat(type, page, content) ==
    Obj(<< <<"type", type>>, <<"page", page>>, <<"content", content>> >>)

\* The body of the POST (lines 224-233).
AnnotationEnvelope(type, page, content) ==
    Obj(<< <<"data",
             Obj(<< <<"type", Str("annotations")>>,
                    <<"attributes", Obj(<< <<"type", type>>, <<"page", page>>,
                                           <<"content", content>> >>)>> >>)>> >>)

\* The catch block of lines 246-257.
CreateFailed(r, error) ==
    Finish(r, Returned(ToolResult(CreateFailureText, TRUE)),
           ErrorLog("Error creating annotation:", error))

\* Whether lines 224-241 throw once the call has been issued.
CreateThrows(response) ==
    \/ DataThrows(response)
    \/ IsNullish(Prop(response.data, "data"))

\* The text of line 241.
CreateText(type, response) ==
    "Successfully created " \o ToStr(type) \o " annotation with ID: "
    \o ToStr(Prop(Prop(response.data, "data"), "id"))

\* The create_annotation branch up to its await at line 224.  Destructuring
\* arguments that are undefined throws before any call is issued.
CallTool_CreateAnnotation(r, request) ==
    /\ pc[r] = "idle"
    /\ request.method = "tools/call"
    /\ ToolName(request) = Str("create_annotation")
    /\ req' = [req EXCEPT ![r] = request]
    /\ IF IsNullish(Arguments(request))
       THEN CreateFailed(r, "TypeError") /\ UNCHANGED <<sent, locals>>
       ELSE LET args == Arguments(request)
            IN /\ locals' = [locals EXCEPT ![r] = [type |-> Prop(args, "type")]]
               /\ Await(r, ApiPost("/api/documents/" \o ToStr(Prop(args, "documentId"))
                                     \o "/annotations",
                                   AnnotationEnvelope(Prop(args, "type"), Prop(args, "page"),
                                                      Prop(args, "content"))),
                        "create:224")
               /\ UNCHANGED <<outcome, stderr>>
    /\ UNCHANGED recv

\* The create_annotation branch from line 224 to its end.
CallTool_CreateAnnotation_Resume(r, response) ==
    /\ pc[r] = "create:224"
    /\ recv' = [recv EXCEPT ![r] = Append(@, response)]
    /\ IF CreateThrows(response)
       THEN CreateFailed(r, CaughtError(response))
       ELSE Finish(r, Returned(ToolResult(CreateText(locals[r].type, response), FALSE)), <<>>)
    /\ UNCHANGED <<req, sent, locals>>

\* CallTool_NotFound answering like the two tools do on failure.
CallTool_NotFoundFlagged(r, request) ==
    /\ pc[r] = "idle"
    /\ request.method = "tools/call"
    /\ ToolName(request) \notin {Str("search"), Str("create_annotation")}
    /\ req' = [req EXCEPT ![r] = request]
    /\ Finish(r, Returned(ToolResult("Tool not found", TRUE)), <<>>)
    /\ UNCHANGED <<sent, recv, locals>>

\* Any other tool name falls through both branches to line 260.
CallTool_NotFound(r, request) ==
    /\ pc[r] = "idle"
    /\ request.method = "tools/call"
    /\ ToolName(request) \notin {Str("search"), Str("create_annotation")}
    /\ req' = [req EXCEPT ![r] = request]
    /\ Finish(r, Thrown("Tool not found"), <<>>)
    /\ UNCHANGED <<sent, recv, locals>>

(***************************************************************************)
(* Specifications.                                                         *)
(***************************************************************************)
\* One request, drawn from all the inputs, against all the backend answers.
Next ==
    \E r \in {1} :
        \/ \E request \in AllRequests :
              \/ ListResources(r, request)
              \/ ReadResource(r, request)
              \/ ListTools(r, request)
              \/ CallTool_Search(r, request)
              \/ CallTool_CreateAnnotation(r, request)
              \/ CallTool_NotFound(r, request)
        \/ \E response \in Responses(ListBodies) :
              \/ ListResources_Resume(r, response)
              \/ CallTool_Search_Resume(r, response)
        \/ \E response \in Responses(DocumentBodies) : ReadResource_Document(r, response)
        \/ \E response \in Responses(LayersBodies) : ReadResource_Layers(r, response)
        \/ \E response \in Responses(AnnotationsBodies) :
              ReadResource_Annotations(r, response)
        \/ \E response \in Responses(CreateBodies) :
              CallTool_CreateAnnotation_Resume(r, response)

Spec == Init /\ [][Next]_vars

\* Several requests in flight, their handlers interleaving at the awaits,
\* drawn from one request of each kind and a few backend answers.
ConcRequests ==
    {[method |-> "resources/list", params |-> Undefined],
     [method |-> "resources/list", params |-> Obj(<< <<"cursor", Str("2")>> >>)],
     [method |-> "resources/read",
      params |-> Obj(<< <<"uri", Str(URI_PREFIX \o "abc123")>> >>)],
     [method |-> "tools/list", params |-> Undefined],
     CallRequest("search", Obj(<< <<"query", Str("invoice")>> >>)),
     CallRequest("create_annotation",
                 Obj(<< <<"documentId", Str("abc123")>>, <<"type", Str("note")>>,
                        <<"page", Num(1)>>, <<"content", Obj(<<>>)>> >>)),
     CallRequest("unknown_tool", Obj(<<>>))}

ConcResponses ==
    {Rejected("ECONNREFUSED"),
     Resolved(Obj(<<>>)),
     Resolved(Obj(<< <<"data", Arr(<<>>)>>,
                     <<"meta", Obj(<< <<"pagination",
                                        Obj(<< <<"next_page", Num(2)>> >>)>> >>)>> >>)),
     Resolved(Obj(<< <<"data", Obj(<< <<"id", Str("abc123")>>,
                                      <<"attributes", Obj(<<>>)>> >>)>> >>))}

NextConc ==
    \E r \in Requests :
        \/ \E request \in ConcRequests :
              \/ ListResources(r, request)
              \/ ReadResource(r, request)
              \/ ListTools(r, request)
              \/ CallTool_Search(r, request)
              \/ CallTool_CreateAnnotation(r, request)
              \/ CallTool_NotFound(r, request)
        \/ \E response \in ConcResponses :
              \/ ListResources_Resume(r, response)
              \/ CallTool_Search_Resume(r, response)
              \/ ReadResource_Document(r, response)
              \/ ReadResource_Layers(r, response)
              \/ ReadResource_Annotations(r, response)
              \/ CallTool_CreateAnnotation_Resume(r, response)

SpecConc == Init /\ [][NextConc]_vars

(***************************************************************************)
(* Vocabulary of the properties.                                           *)
(***************************************************************************)
StartsWith(s, p) == Len(s) >= Len(p) /\ SubSeq(s, 1, Len(p)) = p
Contains(s, p) == \E i \in 1..(Len(s) - Len(p) + 1) : SubSeq(s, i, i + Len(p) - 1) = p

\* The lines of a text ("" has none).
RECURSIVE Lines(_)
Lines(s) ==
    IF s = "" THEN <<>>
    ELSE IF \A i \in 1..Len(s) : SubSeq(s, i, i) # "\n" THEN <<s>>
    ELSE LET i == CHOOSE j \in 1..Len(s) :
                     /\ SubSeq(s, j, j) = "\n"
                     /\ \A h \in 1..(j - 1) : SubSeq(s, h, h) # "\n"
         IN <<SubSeq(s, 1, i - 1)>>
            \o (IF i = Len(s) THEN <<"">> ELSE Lines(SubSeq(s, i + 1, Len(s))))

Arrived(r) == pc[r] # "idle"
Done(r) == pc[r] = "done"
IsList(r) == Arrived(r) /\ req[r].method = "resources/list"
IsRead(r) == Arrived(r) /\ req[r].method = "resources/read"
IsCall(r, name) ==
    Arrived(r) /\ req[r].method = "tools/call" /\ Prop(req[r].params, "name") = Str(name)
IsOtherCall(r) ==
    /\ Arrived(r)
    /\ req[r].method = "tools/call"
    /\ Prop(req[r].params, "name").s \notin {"search", "create_annotation"}

IsRejected(response) == response.status = "rejected"

\* Payloads of the shape the backend documents: a document carries an id and
\* an attributes object, a listing carries an array of documents, a created
\* annotation carries its id.
WellFormedDocument(d) ==
    /\ d.t = "object"
    /\ Prop(d, "id").t \in {"string", "number"}
    /\ Prop(d, "attributes").t = "object"
WellFormedListing(body) ==
    /\ body.t = "object"
    /\ Prop(body, "data").t = "array"
    /\ \A i \in 1..Len(Prop(body, "data").items) :
          WellFormedDocument(Prop(body, "data").items[i])
WellFormedCreated(body) ==
    /\ body.t = "object"
    /\ Prop(body, "data").t = "object"
    /\ Prop(Prop(body, "data"), "id").t \in {"string", "number"}

\* The title of a document of a listing, and whether it is absent or empty.
TitleOf(d) == Prop(Prop(d, "attributes"), "title")
Untitled(d) == TitleOf(d).t \in {"undefined", "null"} \/ TitleOf(d) = Str("")
ShownName(d) == IF Untitled(d) THEN "Document " \o ToStr(Prop(d, "id")) ELSE TitleOf(d).s

(***************************************************************************)
(* C1.  search and create_annotation: whenever the backend call fails (the *)
(* call rejects, or the payload is malformed), the request completes with  *)
(* a normal result whose isError flag is true and whose text is the tool's *)
(* fixed failure message; it never raises and never returns                *)
(* isError = false in that case.                                           *)
(***************************************************************************)
C1_ToolFailureIsFlagged ==
    \A r \in Requests :
        /\ (Done(r) /\ IsCall(r, "search") /\ Len(recv[r]) = 1
              /\ (IsRejected(recv[r][1]) \/ ~WellFormedListing(recv[r][1].data)))
           => outcome[r] = Returned(ToolResult(SearchFailureText, TRUE))
        /\ (Done(r) /\ IsCall(r, "create_annotation") /\ Len(recv[r]) = 1
              /\ (IsRejected(recv[r][1]) \/ ~WellFormedCreated(recv[r][1].data)))
           => outcome[r] = Returned(ToolResult(CreateFailureText, TRUE))

C3_UnknownToolRaises ==
    \A r \in Requests :
        IsOtherCall(r) => /\ Done(r)
                          /\ outcome[r] = Thrown("Tool not found")
                          /\ sent[r] = <<>>

C3_Witness ==
    \E r \in Requests :
        /\ Done(r) /\ IsCall(r, "unknown_tool")
        /\ outcome[r].kind = "error"

(***************************************************************************)
(* C4.  As claimed: every resources/read invocation issues exactly three   *)
(* backend calls.                                                          *)
(***************************************************************************)
C4_AlwaysThreeCalls ==
    \A r \in Requests : (Done(r) /\ IsRead(r)) => Len(sent[r]) = 3

\* The three calls of a read of document id `id`, in the order of issue.
ReadCalls(id) ==
    <<[method |-> "GET", url |-> "/api/documents/" \o id],
      [method |-> "GET", url |-> "/api/documents/" \o id \o "/layers"],
      [method |-> "GET", url |-> "/api/documents/" \o id \o "/annotations"]>>

\* A call that yields a response with a body.
Answered(response) ==
    response.status = "resolved" /\ response.data.t \notin {"null", "undefined"}

(***************************************************************************)
(* C4, amended.  A resources/read invocation issues its backend calls in   *)
(* the order get document, get layers, get annotations, each one only      *)
(* after the previous one has returned, and issues no further call after   *)
(* one that fails (is rejected or answers without a body): exactly three   *)
(* calls when the first two are answered, one or two otherwise.            *)
(***************************************************************************)
C4_SequentialUntilFailure ==
    \A r \in Requests :
        IsRead(r) =>
            LET n == Len(sent[r])
                id == SubSeq(sent[r][1].url, Len("/api/documents/") + 1, Len(sent[r][1].url))
            IN /\ n \in 1..3
               /\ \A i \in 1..n :
                     /\ sent[r][i].method = ReadCalls(id)[i].method
                     /\ sent[r][i].url = ReadCalls(id)[i].url
               \* one call at a time: call i+1 is issued once call i has returned
               /\ Len(recv[r]) \in {n - 1, n}
               /\ \A i \in 1..(n - 1) : Answered(recv[r][i])
               /\ Done(r) => /\ Len(recv[r]) = n
                             /\ n < 3 => ~Answered(recv[r][n])

\* A read that stopped after its second call, and one that made all three.
C4_Witness ==
    \E r \in Requests :
        /\ Done(r) /\ IsRead(r)
        /\ Len(sent[r]) = 2
        /\ Answered(recv[r][1]) /\ IsRejected(recv[r][2])

\* The cursor a resources/list request provides (undefined when it provides none).
CursorOf(r) ==
    IF req[r].params.t = "object" THEN Prop(req[r].params, "cursor") ELSE Undefined

\* The next page the backend reports in the pagination metadata of response 1.
ReportedNextPage(r) ==
    Prop(Prop(Prop(recv[r][1].data, "meta"), "pagination"), "next_page")

Succeeded(r) == Done(r) /\ outcome[r].kind = "result"

(***************************************************************************)
(* C5.  As claimed: resources/list forwards any cursor the caller provides,*)
(* unchanged, as the page parameter (and sends no page parameter when no   *)
(* cursor is provided); on success nextCursor equals the next page the     *)
(* backend reports, and is absent exactly when the backend reports none.   *)
(***************************************************************************)
C5_AnyCursorForwarded ==
    \A r \in Requests :
        IsList(r) =>
            /\ Len(sent[r]) = 1
            /\ CursorOf(r).t # "undefined"
                  => sent[r][1].params = Obj(<< <<"page", CursorOf(r)>> >>)
            /\ CursorOf(r).t = "undefined" => sent[r][1].params = Obj(<<>>)
            /\ Succeeded(r) =>
                  IF ReportedNextPage(r).t \in {"undefined", "null"}
                  THEN outcome[r].value.nextCursor = Undefined
                  ELSE outcome[r].value.nextCursor = ReportedNextPage(r)

\* A cursor or next page that JavaScript treats as set: a non-empty string or
\* a number other than 0.
IsSet(v) == (v.t = "string" /\ v.s # "") \/ (v.t = "number" /\ v.n # 0)

(***************************************************************************)
(* C5, amended.  resources/list forwards a non-empty cursor, unchanged, as *)
(* the page parameter of its one listing call, and sends no page parameter *)
(* when the cursor is absent or the empty string; on success nextCursor    *)
(* equals the next page the backend reports when that is a non-empty       *)
(* string or a number other than 0, and is absent otherwise (no next page  *)
(* reported, null, 0 or the empty string).                                 *)
(***************************************************************************)
C5_NonEmptyCursorForwarded ==
    \A r \in Requests :
        IsList(r) =>
            /\ Len(sent[r]) = 1
            /\ sent[r][1].method = "GET" /\ sent[r][1].url = "/api/documents"
            /\ IsSet(CursorOf(r)) => sent[r][1].params = Obj(<< <<"page", CursorOf(r)>> >>)
            /\ ~IsSet(CursorOf(r)) => sent[r][1].params = Obj(<<>>)
            /\ Succeeded(r) =>
                  IF IsSet(ReportedNextPage(r))
                  THEN outcome[r].value.nextCursor = ReportedNextPage(r)
                  ELSE outcome[r].value.nextCursor = Undefined

\* A listing of page "2" that succeeded and reported a next page.
C5_Witness ==
    \E r \in Requests :
        /\ IsList(r) /\ Succeeded(r)
        /\ CursorOf(r) = Str("2")
        /\ sent[r][1].params = Obj(<< <<"page", Str("2")>> >>)
        /\ outcome[r].value.nextCursor = Num(2)

\* The documents of the listing that response 1 carries.
ListedDocuments(r) == Prop(recv[r][1].data, "data").items

\* The text of a tool result.
TextOf(r) == outcome[r].value.content[1].text

(***************************************************************************)
(* C6.  For every document the backend returns whose title is absent or    *)
(* empty, the name shown for it (the resource name of resources/list, the  *)
(* title part of its line in the search result) is exactly                 *)
(* `Document <id>`; for a document with a non-empty title it is the title. *)
(***************************************************************************)
C6_NameIsTitleOrFallback ==
    \A r \in Requests :
        /\ (IsList(r) /\ Succeeded(r)) =>
              /\ Len(outcome[r].value.resources) = Len(ListedDocuments(r))
              /\ \A i \in 1..Len(ListedDocuments(r)) :
                    outcome[r].value.resources[i].name = Str(ShownName(ListedDocuments(r)[i]))
        /\ (IsCall(r, "search") /\ Succeeded(r) /\ ~outcome[r].value.isError) =>
              \A i \in 1..Len(ListedDocuments(r)) :
                  StartsWith(Lines(TextOf(r))[i + 1],
                             ShownName(ListedDocuments(r)[i]) \o " (ID: ")

\* A listing with an untitled document abc123 and a titled one.
C6_Witness ==
    \E r \in Requests :
        /\ IsList(r) /\ Succeeded(r)
        /\ Len(ListedDocuments(r)) = 2
        /\ TitleOf(ListedDocuments(r)[1]) = Str("")
        /\ outcome[r].value.resources[1].name = Str("Document abc123")
        /\ outcome[r].value.resources[2].name = Str("Invoice")

(***************************************************************************)
(* C7.  A create_annotation call with arguments {documentId, type, page,   *)
(* content} issues exactly one backend call, a POST to the annotation      *)
(* endpoint of that documentId whose body is {data: {type: "annotations",  *)
(* attributes: {type, page, content}}} with type, page and content passed  *)
(* through unchanged; when the call succeeds (the backend answers with the *)
(* created annotation) the result has isError = false and its text         *)
(* contains the annotation id the backend assigned.                        *)
(***************************************************************************)
C7_CreateAnnotationPosts ==
    \A r \in Requests :
        (IsCall(r, "create_annotation") /\ Prop(req[r].params, "arguments").t = "object") =>
            LET args == Prop(req[r].params, "arguments")
            IN /\ Len(sent[r]) = 1
               /\ sent[r][1].method = "POST"
               /\ sent[r][1].url
                    = "/api/documents/" \o Prop(args, "documentId").s \o "/annotations"
               /\ sent[r][1].data
                    = Obj(<< <<"data",
                               Obj(<< <<"type", Str("annotations")>>,
                                      <<"attributes",
                                        Obj(<< <<"type", Prop(args, "type")>>,
                                               <<"page", Prop(args, "page")>>,
                                               <<"content", Prop(args, "content")>> >>)>> >>)>> >>)
               /\ (Done(r) /\ ~IsRejected(recv[r][1]) /\ WellFormedCreated(recv[r][1].data)) =>
                     /\ outcome[r].kind = "result"
                     /\ outcome[r].value.isError = FALSE
                     /\ Contains(TextOf(r), ToStr(Prop(Prop(recv[r][1].data, "data"), "id")))

\* The note on page 1 of abc123, created as ann-1.
C7_Witness ==
    \E r \in Requests :
        /\ IsCall(r, "create_annotation") /\ Done(r)
        /\ Len(sent[r]) = 1
        /\ sent[r][1].url = "/api/documents/abc123/annotations"
        /\ ~IsRejected(recv[r][1]) /\ WellFormedCreated(recv[r][1].data)
        /\ Prop(Prop(recv[r][1].data, "data"), "id") = Str("ann-1")
        /\ ~outcome[r].value.isError
        /\ Contains(TextOf(r), "ann-1")

(***************************************************************************)
(* C8.  A successful search call issues exactly one backend listing call   *)
(* carrying the query as its filter, and returns a result with             *)
(* isError = false whose text states the count as "Found N documents", N   *)
(* the number of documents the backend returned, followed by exactly one   *)
(* line `<title-or-fallback> (ID: <id>)` per document, in backend order.   *)
(***************************************************************************)
C8_SearchListsDocuments ==
    \A r \in Requests :
        IsCall(r, "search") =>
            /\ Len(sent[r]) = 1
            /\ sent[r][1].method = "GET" /\ sent[r][1].url = "/api/documents"
            /\ Prop(req[r].params, "arguments").t = "object"
                  => sent[r][1].params
                       = Obj(<< <<"filter",
                                  Obj(<< <<"query",
                                           Prop(Prop(req[r].params, "arguments"),
                                                "query")>> >>)>> >>)
            /\ (Done(r) /\ ~IsRejected(recv[r][1]) /\ WellFormedListing(recv[r][1].data)) =>
                  LET docs == ListedDocuments(r)
                      lines == Lines(TextOf(r))
                  IN /\ outcome[r].kind = "result"
                     /\ outcome[r].value.isError = FALSE
                     /\ StartsWith(lines[1], "Found " \o ToString(Len(docs)) \o " documents")
                     /\ IF Len(docs) = 0
                        THEN lines = <<lines[1], "">>
                        ELSE /\ Len(lines) = 1 + Len(docs)
                             /\ \A i \in 1..Len(docs) :
                                   lines[i + 1] = ShownName(docs[i]) \o " (ID: "
                                                  \o ToStr(Prop(docs[i], "id")) \o ")"

\* A search that found document 7 and then abc123.
C8_Witness ==
    \E r \in Requests :
        /\ IsCall(r, "search") /\ Done(r) /\ ~IsRejected(recv[r][1])
        /\ WellFormedListing(recv[r][1].data)
        /\ Len(ListedDocuments(r)) = 2
        /\ Contains(TextOf(r), "Found 2 documents")
        /\ Lines(TextOf(r))[2] = "Document 7 (ID: 7)"
        /\ Lines(TextOf(r))[3] = "Invoice (ID: abc123)"

\* The URI of a resources/read request.
UriOf(r) == Prop(req[r].params, "uri").s

(***************************************************************************)
(* C9.  As claimed: a resources/read request whose URI does not use the    *)
(* nutrient-document-engine:/// scheme ends in a terminal failure and      *)
(* never yields a successful result.                                       *)
(***************************************************************************)
C9_ForeignUriFails ==
    \A r \in Requests :
        (IsRead(r) /\ Done(r) /\ ~StartsWith(UriOf(r), URI_PREFIX))
        => outcome[r].kind = "error"

\* Well-formed answers to the three calls of a read.
WellFormedItems(body) ==
    /\ body.t = "object"
    /\ Prop(body, "data").t = "array"
    /\ \A i \in 1..Len(Prop(body, "data").items) :
          /\ Prop(body, "data").items[i].t = "object"
          /\ Prop(Prop(body, "data").items[i], "attributes").t = "object"
WellFormedRead(responses) ==
    /\ Len(responses) = 3
    /\ \A i \in 1..3 : Answered(responses[i])
    /\ WellFormedDocument(Prop(responses[1].data, "data"))
    /\ WellFormedItems(responses[2].data)
    /\ WellFormedItems(responses[3].data)

(***************************************************************************)
(* C9, amended.  A resources/read request whose URI does not use the       *)
(* nutrient-document-engine:/// scheme is not refused: the URI itself      *)
(* (less the first occurrence of the scheme prefix, if it occurs further   *)
(* on) is sent to the backend as the document id.  The request yields a    *)
(* successful result when the three backend calls answer with well-formed  *)
(* payloads, and ends in the terminal failure "Failed to read document"    *)
(* when one of them is rejected or answers without a body.                 *)
(***************************************************************************)
C9_ForeignUriReachesBackend ==
    \A r \in Requests :
        (IsRead(r) /\ ~StartsWith(UriOf(r), URI_PREFIX)) =>
            /\ ~Contains(UriOf(r), URI_PREFIX)
                  => sent[r][1].url = "/api/documents/" \o UriOf(r)
            /\ Contains(UriOf(r), URI_PREFIX)
                  => Len(sent[r][1].url)
                       = Len("/api/documents/") + Len(UriOf(r)) - Len(URI_PREFIX)
            /\ Done(r) =>
                  /\ WellFormedRead(recv[r]) =>
                        /\ outcome[r].kind = "result"
                        /\ outcome[r].value.contents[1].uri = UriOf(r)
                  /\ (\E i \in 1..Len(recv[r]) : ~Answered(recv[r][i]))
                        => outcome[r] = Thrown("Failed to read document")

\* The bare URI "abc123" read successfully.
C9_Witness ==
    \E r \in Requests :
        /\ IsRead(r) /\ Done(r)
        /\ UriOf(r) = "abc123"
        /\ sent[r][1].url = "/api/documents/abc123"
        /\ outcome[r].kind = "result"

(***************************************************************************)
(* A request processed alone: the backend calls it issues and how it ends, *)
(* as a function of the request and of the answers to its own calls.       *)
(***************************************************************************)
AloneCalls(request, responses) ==
    CASE request.method = "resources/list" ->
            <<ApiGet("/api/documents",
                     IF Truthy(Cursor(request))
                     THEN Obj(<< <<"page", Cursor(request)>> >>)
                     ELSE Obj(<<>>))>>
      [] request.method = "resources/read" ->
            LET id == DocumentId(request)
                answered == IF Len(responses) >= 1 /\ ~DataThrows(responses[1])
                            THEN (IF Len(responses) >= 2 /\ ~DataThrows(responses[2])
                                  THEN 2 ELSE 1)
                            ELSE 0
            IN SubSeq(<<ApiGet("/api/documents/" \o id, Undefined),
                        ApiGet("/api/documents/" \o id \o "/layers", Undefined),
                        ApiGet("/api/documents/" \o id \o "/annotations", Undefined)>>,
                      1, 1 + answered)
      [] request.method = "tools/call" /\ ToolName(request) = Str("search") ->
            <<ApiGet("/api/documents",
                     Obj(<< <<"filter", Obj(<< <<"query", Query(request)>> >>)>> >>))>>
      [] /\ request.method = "tools/call"
         /\ ToolName(request) = Str("create_annotation")
         /\ ~IsNullish(Arguments(request)) ->
            LET args == Arguments(request)
            IN <<ApiPost("/api/documents/" \o ToStr(Prop(args, "documentId"))
                           \o "/annotations",
                         AnnotationEnvelope(Prop(args, "type"), Prop(args, "page"),
                                            Prop(args, "content")))>>
      [] OTHER -> <<>>

AloneOutcome(request, responses) ==
    CASE request.method = "resources/list" ->
            IF Len(responses) = 0 THEN Pending
            ELSE IF ListResourcesThrows(responses[1]) THEN Thrown("Failed to list documents")
            ELSE Returned(ListResourcesResult(responses[1]))
      [] request.method = "resources/read" ->
            IF \E i \in 1..Len(responses) : DataThrows(responses[i])
            THEN Thrown("Failed to read document")
            ELSE IF Len(responses) < 3 THEN Pending
            ELSE LET document == Prop(responses[1].data, "data")
                     layers == Prop(responses[2].data, "data")
                     annotations == Prop(responses[3].data, "data")
                 IN IF DocumentInfoThrows(document, layers, annotations)
                    THEN Thrown("Failed to read document")
                    ELSE Returned(ReadResourceResult(request,
                                    DocumentInfo(document, layers, annotations)))
      [] request.method = "tools/list" -> Returned(ToolCatalog)
      [] request.method = "tools/call" /\ ToolName(request) = Str("search") ->
            IF Len(responses) = 0 THEN Pending
            ELSE IF SearchThrows(responses[1])
                 THEN Returned(ToolResult(SearchFailureText, TRUE))
            ELSE Returned(ToolResult(SearchText(responses[1]), FALSE))
      [] request.method = "tools/call" /\ ToolName(request) = Str("create_annotation") ->
            IF IsNullish(Arguments(request))
            THEN Returned(ToolResult(CreateFailureText, TRUE))
            ELSE IF Len(responses) = 0 THEN Pending
            ELSE IF CreateThrows(responses[1])
                 THEN Returned(ToolResult(CreateFailureText, TRUE))
            ELSE Returned(ToolResult(CreateText(Prop(Arguments(request), "type"),
                                                responses[1]), FALSE))
      [] OTHER -> Thrown("Tool not found")

(***************************************************************************)
(* C10.  Under any interleaving of concurrently processed requests, the    *)
(* outcome of each request depends only on its own parameters and on the   *)
(* backend's answers to its own calls: the calls it issues and the way it  *)
(* ends are those of the same request processed alone.                     *)
(***************************************************************************)
C10_RequestsAreIndependent ==
    \A r \in Requests :
        Arrived(r) => /\ sent[r] = AloneCalls(req[r], recv[r])
                      /\ outcome[r] = AloneOutcome(req[r], recv[r])

\* Two requests in flight together: a listing of page "2" is suspended at its
\* backend call while another listing, without cursor, has run to its end.
C10_Witness ==
    \E r, q \in Requests :
        /\ r # q
        /\ IsList(r) /\ pc[r] = "list:65" /\ CursorOf(r) = Str("2")
        /\ IsList(q) /\ Succeeded(q) /\ CursorOf(q) = Undefined
        /\ sent[q][1].params = Obj(<<>>)

=============================================================================
